---- MODULE Spec2Model ----
\* Model of the Arrow Flight load-test client: cli.py (cmd_query, cmd_load_test),
\* load_tester.py (LoadTester) and flight_client.py (ArrowFlightClient).
\* One behaviour is one invocation of the CLI; the worker threads of the
\* ThreadPoolExecutor interleave with the main thread.
EXTENDS Integers, Sequences, FiniteSets, TLC

\* ---------------------------------------------------------------- bounds
MaxRequests == 3
MaxConcurrency == 2
MaxTenants == 2
MaxSamples == 3
MaxRank == 40
MaxUsers == 2
MaxPerUser == 2

\* ---------------------------------------------------------------- data
\* ui.py QueryMetrics.error default (None)
NoError == "None"

\* the phases of query_dataset at which the round trip can fail: the metadata
\* call (FlightError), unpacking info.endpoints[0] (IndexError), and the
\* stream, do_get and read_all taken together (FlightError)
FailPhases == {"get_flight_info", "endpoints", "read_all"}

\* observed duration (ms) of the transfer phase, of the metadata phase, and
\* the tables a backend can stream
Latencies == {2}
MetaLatencies == {1}
Tables == {[num_rows |-> 2, nbytes |-> 16]}

\* What the environment does to one request: whether constructing the client
\* raises, at which phase (if any) the round trip fails, and what it measures.
BackendOutcomes(reachable) ==
  { [fail |-> f, meta |-> m, transfer |-> t, table |-> tb] :
      f \in (IF reachable THEN FailPhases \cup {"none"} ELSE {"get_flight_info"}),
      m \in MetaLatencies, t \in Latencies, tb \in Tables }

\* ui.py QueryMetrics(tenant_id, dataset): the dataclass defaults
QueryMetrics(tenant_id) ==
  [tenant_id |-> tenant_id, rows |-> 0, bytes |-> 0,
   metadata_latency_ms |-> 0, transfer_latency_ms |-> 0, total_latency_ms |-> 0,
   status |-> "Pending", error |-> NoError]

\* Which exceptions the handler of query_dataset catches (except Exception)
CaughtMut(phase) == phase \in {"get_flight_info", "read_all"}
Caught(phase) == phase \in FailPhases

\* flight_client.py lines 87-89: the except branch marks the sample failed and
\* stores the text of the exception
ExceptHandlerMut(metrics, e) == [metrics EXCEPT !.status = "Error"]
ExceptHandler(metrics, e) == [metrics EXCEPT !.status = "Error", !.error = e]

\* flight_client.py query_dataset: GetInfo + DoGet, every failure turned into
\* a metrics object with status "Error". The result is [raised, metrics].
query_dataset(tenant_id, o) ==
  LET m0 == QueryMetrics(tenant_id)
      \* line 66-68: the metadata latency is stored once get_flight_info returned
      m1 == IF o.fail = "get_flight_info" THEN m0
            ELSE [m0 EXCEPT !.metadata_latency_ms = o.meta]
      \* lines 82-85 run only when no phase failed
      m2 == IF o.fail = "none"
            THEN [m1 EXCEPT !.transfer_latency_ms = o.transfer,
                            !.rows = o.table.num_rows,
                            !.bytes = o.table.nbytes,
                            !.status = "Success"]
            ELSE ExceptHandler(m1, o.fail)
      \* line 92
      m3 == [m2 EXCEPT !.total_latency_ms =
                         m2.metadata_latency_ms + m2.transfer_latency_ms]
  IN IF o.fail # "none" /\ ~Caught(o.fail)
     THEN [raised |-> TRUE, metrics |-> m0]
     ELSE [raised |-> FALSE, metrics |-> m3]

\* flight_client.py check_health: list_flights succeeds iff the gateway answers
check_health(reachable) == reachable

\* cli.py line 45: tenant_001, tenant_002, ...
TenantName(k) == IF k = 1 THEN "tenant_001" ELSE IF k = 2 THEN "tenant_002"
                 ELSE IF k = 3 THEN "tenant_003" ELSE "tenant_004"

\* cli.py lines 44-45: the tenant list of a load test
GenerateTenants(tenants_list, tenants_count) ==
  IF tenants_list # <<>> THEN tenants_list
  ELSE [k \in 1..tenants_count |-> TenantName(k)]

\* load_tester.py line 64: round-robin choice (Python index i, 1-based sequence)
TenantForMut(i, tenants) == tenants[IF i + 1 > Len(tenants) THEN Len(tenants) ELSE i + 1]
TenantFor(i, tenants) == tenants[(i % Len(tenants)) + 1]

\* The per-partition batching policy: n requests over m partitions, partition
\* j (1-based) gets n // m, and one more when it is among the first n % m
BatchCount(j, n, m) == (n \div m) + (IF j <= n % m THEN 1 ELSE 0)

\* load_tester.py line 58: ThreadPoolExecutor(max_workers=self.concurrency)
max_workersMut(concurrency) == concurrency + 1
max_workers(concurrency) == concurrency

\* ---------------------------------------------------------------- statistics
RECURSIVE SumSeq(_)
SumSeq(s) == IF s = <<>> THEN 0 ELSE Head(s) + SumSeq(Tail(s))

RECURSIVE Insert(_, _)
Insert(x, s) == IF s = <<>> THEN <<x>>
                ELSE IF x <= Head(s) THEN <<x>> \o s
                ELSE <<Head(s)>> \o Insert(x, Tail(s))

RECURSIVE Sorted(_)
Sorted(s) == IF s = <<>> THEN <<>> ELSE Insert(Head(s), Sorted(Tail(s)))

Field(s, f) == [k \in 1..Len(s) |-> s[k][f]]

\* load_tester.py line 87: int(len(latencies) * 0.95). The double nearest to
\* 0.95 times n rounds to the integer 19n/20 whenever that is an integer, so
\* the truncation is floor(95n/100).
P95IndexMut(n) == (n * 95 + 50) \div 100
P95Index(n) == (n * 95) \div 100

\* load_test.py lines 79-81: int(len(sorted_ttfb) * 0.90), ... * 0.99
P90Index(n) == (n * 90) \div 100
P99Index(n) == (n * 99) \div 100

\* load_test.py lines 72-81, LoadTestResult.calculate_statistics: the
\* percentiles of the TTFB values, left at their default 0 without values
TtfbPercentiles(ttfb_values) ==
  LET sorted_ttfb == Sorted(ttfb_values)
      n == Len(sorted_ttfb)
  IN IF ttfb_values # <<>>
     THEN [p90 |-> sorted_ttfb[P90Index(n) + 1],
           p95 |-> sorted_ttfb[P95Index(n) + 1],
           p99 |-> sorted_ttfb[P99Index(n) + 1]]
     ELSE [p90 |-> 0, p95 |-> 0, p99 |-> 0]

\* load_tester.py lines 79-80: the split on status
SuccessfulMut(res) == res
Successful(res) == SelectSeq(res, LAMBDA r : r.status = "Success")
Failed(res) == SelectSeq(res, LAMBDA r : r.status # "Success")

\* load_tester.py lines 86-87: the guard `if latencies`
HasLatenciesMut(latencies) == TRUE
HasLatencies(latencies) == latencies # <<>>

\* load_tester.py line 82: sorted([r.total_latency_ms for r in successful])
LatenciesOfMut(successful) == Field(successful, "total_latency_ms")
LatenciesOf(successful) == Sorted(Field(successful, "total_latency_ms"))

\* what _calculate_metrics leaves behind when it raises instead of returning
MetricsRaised == [raised |-> TRUE]

\* load_tester.py _calculate_metrics; avg_latency_ms is kept as the fraction
\* sum/len (num, den). A division by zero (line 86) or an index outside the
\* list (line 87) makes the call raise.
_calculate_metrics(res, duration) ==
  LET successful == Successful(res)
      failed     == Failed(res)
      latencies  == LatenciesOf(successful)
      n          == Len(latencies)
      divides    == n # 0
      indexed    == P95Index(n) + 1 \in 1..n
  IN IF HasLatencies(latencies) /\ ~(divides /\ indexed)
     THEN MetricsRaised
     ELSE [total_requests |-> Len(res),
           successful     |-> Len(successful),
           failed         |-> Len(failed),
           total_rows     |-> SumSeq(Field(successful, "rows")),
           total_bytes    |-> SumSeq(Field(successful, "bytes")),
           duration_s     |-> duration,
           avg_latency_ms |-> IF HasLatencies(latencies)
                              THEN [num |-> SumSeq(latencies), den |-> n]
                              ELSE [num |-> 0, den |-> 1],
           p95_latency_ms |-> IF HasLatencies(latencies)
                              THEN latencies[P95Index(n) + 1] ELSE 0,
           results        |-> res]

\* load_tester.py lines 55, 72: the wall-clock span of a run (s)
Durations == {1, 2}

\* cli.py lines 72-83: the dict handed to json.dump
ExportData(metrics) ==
  [summary |-> [duration   |-> metrics.duration_s,
                requests   |-> metrics.total_requests,
                successful |-> metrics.successful,
                failed     |-> metrics.failed],
   latency |-> [avg |-> metrics.avg_latency_ms,
                p95 |-> metrics.p95_latency_ms]]

\* ---------------------------------------------------------------- state
VARIABLES
  args,        \* the parsed command line (cli.py main)
  reachable,   \* environment: does the gateway answer
  pc,          \* position of the main thread
  tenants,     \* cmd_load_test: the tenant list
  i,           \* run_load_test: loop index of the dispatch loop
  futures,     \* run_load_test: state of the future of unit k-1 at index k
  queue,       \* the executor's work queue (FIFO)
  workers,     \* the executor's worker threads
  lock,        \* LoadTester._lock: 0 when free, else the holding worker
  results,     \* LoadTester.results
  recorded,    \* history: the unit whose sample is at the same index of results
  exc,         \* exception in flight in the main thread
  aggregate,   \* the LoadTestResult returned by run_load_test
  metricsCalls,\* history: number of calls of _calculate_metrics
  failedCalls, \* history: the units whose backend round trip failed
  dispatched,  \* history: the tenant given to executor.submit, in dispatch order
  exported,    \* cmd_load_test: the data written by json.dump
  outcome      \* how the command ended

vars == <<args, reachable, pc, tenants, i, futures, queue, workers, lock,
          results, recorded, exc, aggregate, metricsCalls, failedCalls,
          dispatched, exported, outcome>>

NoAggregate == [total_requests |-> -1]
NoExport == [written |-> FALSE]
IdleWorker == [pc |-> "idle", unit |-> -1, tenant |-> "", res |-> QueryMetrics("")]

\* cli.py main: argparse; --tenants-list is either absent or one explicit list
ArgSets ==
  [command : {"load-test"}, requests : 0..MaxRequests,
   concurrency : 0..MaxConcurrency,
   tenants_list : {<<>>},
   tenants_count : 0..MaxTenants, tenant : {"tenant_default"}]
  \cup
  [command : {"load-test"}, requests : 0..MaxRequests,
   concurrency : 0..MaxConcurrency,
   tenants_list : {<<"tenant_sergio">>},
   tenants_count : {MaxTenants}, tenant : {"tenant_default"}]
  \cup
  [command : {"query"}, requests : {0}, concurrency : {1},
   tenants_list : {<<>>}, tenants_count : {0}, tenant : {"tenant_default"}]

Init ==
  /\ args \in ArgSets
  /\ reachable \in BOOLEAN
  /\ pc = IF args.command = "query" THEN "cmd_query" ELSE "cmd_load_test"
  /\ tenants = <<>>
  /\ i = 0
  /\ futures = <<>>
  /\ queue = <<>>
  /\ workers = <<>>
  /\ lock = 0
  /\ results = <<>>
  /\ recorded = <<>>
  /\ exc = "None"
  /\ aggregate = NoAggregate
  /\ metricsCalls = 0
  /\ failedCalls = {}
  /\ dispatched = <<>>
  /\ exported = NoExport
  /\ outcome = "running"

\* ---------------------------------------------------------------- cmd_query
\* cli.py lines 24-29: the health probe guards the single query
CmdQueryHealth ==
  /\ pc = "cmd_query"
  /\ IF check_health(reachable)
     THEN pc' = "query" /\ outcome' = outcome
     ELSE pc' = "done" /\ outcome' = "could_not_connect"
  /\ UNCHANGED <<args, reachable, tenants, i, futures, queue, workers, lock,
                 results, recorded, exc, aggregate, metricsCalls, failedCalls, dispatched, exported>>

\* cli.py lines 32-36
CmdQueryRun ==
  /\ pc = "query"
  /\ \E o \in BackendOutcomes(reachable) :
       LET r == query_dataset(args.tenant, o)
       IN outcome' = IF r.raised THEN "error_executing_query"
                     ELSE IF r.metrics.status = "Success" THEN "displayed_success"
                     ELSE "displayed_error"
  /\ pc' = "done"
  /\ UNCHANGED <<args, reachable, tenants, i, futures, queue, workers, lock,
                 results, recorded, exc, aggregate, metricsCalls, failedCalls, dispatched, exported>>

\* ---------------------------------------------------------------- cmd_load_test
\* cli.py lines 44-62: build the tenant list, construct the LoadTester
\* (load_tester.py lines 26-30), call run_load_test. No health probe is made.
CmdLoadTest ==
  /\ pc = "cmd_load_test"
  /\ tenants' = GenerateTenants(args.tenants_list, args.tenants_count)
  /\ results' = <<>>
  /\ lock' = 0
  /\ pc' = "run_load_test"
  /\ UNCHANGED <<args, reachable, i, futures, queue, workers, recorded, exc,
                 aggregate, metricsCalls, failedCalls, dispatched, exported, outcome>>

\* load_tester.py line 56: self.results = []
ResetResultsMut(old) == old
ResetResults(old) == <<>>

\* load_tester.py lines 55-56: start the clock, reset the collection
RunStart ==
  /\ pc = "run_load_test"
  /\ results' = ResetResults(results)
  /\ pc' = "executor"
  /\ UNCHANGED <<args, reachable, tenants, i, futures, queue, workers, lock,
                 recorded, exc, aggregate, metricsCalls, failedCalls, dispatched, exported, outcome>>

\* load_tester.py line 58: ThreadPoolExecutor(max_workers=...) raises ValueError
\* for max_workers <= 0; the exception leaves run_load_test and cmd_load_test.
CreateExecutor ==
  /\ pc = "executor"
  /\ IF max_workers(args.concurrency) <= 0
     THEN pc' = "done" /\ exc' = "ValueError" /\ outcome' = "error"
     ELSE pc' = "submit" /\ exc' = exc /\ outcome' = outcome
  /\ i' = 0
  /\ futures' = <<>>
  /\ UNCHANGED <<args, reachable, tenants, queue, workers, lock, results,
                 recorded, aggregate, metricsCalls, failedCalls, dispatched, exported>>

\* load_tester.py lines 63-70: where the main thread goes after one pass of
\* the dispatch loop that has submitted unit i of n
AfterSubmitMut(k, n) == "metrics"
AfterSubmit(k, n) == IF k + 1 < n THEN "submit" ELSE "wait"

\* load_tester.py line 66: executor.submit puts the work item on the pool's
\* work queue, which has no capacity limit, so the put never waits
SubmitReadyMut(q, concurrency) == Len(q) < concurrency
SubmitReady(q, concurrency) == TRUE

\* load_tester.py lines 63-67: one pass of the dispatch loop. An empty tenant
\* list makes i % len(tenants) raise ZeroDivisionError, which leaves the with
\* block. submit() queues the work item and starts a worker thread while the
\* pool has fewer than max_workers threads.
Submit ==
  /\ pc = "submit"
  /\ IF i >= args.requests
     THEN /\ pc' = "wait"
          /\ UNCHANGED <<i, futures, queue, workers, exc, dispatched>>
     ELSE IF Len(tenants) = 0
     THEN /\ pc' = "exit"
          /\ exc' = "ZeroDivisionError"
          /\ UNCHANGED <<i, futures, queue, workers, dispatched>>
     ELSE /\ SubmitReady(queue, args.concurrency)
          /\ queue' = Append(queue, [unit |-> i, tenant |-> TenantFor(i, tenants)])
          /\ dispatched' = Append(dispatched, TenantFor(i, tenants))
          /\ futures' = Append(futures, "PENDING")
          /\ workers' = IF Len(workers) < max_workers(args.concurrency)
                        THEN Append(workers, IdleWorker) ELSE workers
          /\ i' = i + 1
          /\ pc' = AfterSubmit(i, args.requests)
          /\ exc' = exc
  /\ UNCHANGED <<args, reachable, tenants, lock, results, recorded, aggregate,
                 metricsCalls, failedCalls, exported, outcome>>

\* a future is done once its task returned or raised
Done(f) == f \in {"FINISHED", "RAISED"}

\* load_tester.py line 70: what concurrent.futures.wait makes of the futures;
\* it never calls result(), so a task's exception is not re-raised
WaitOutcomeMut(fs) == IF \E k \in 1..Len(fs) : fs[k] = "RAISED" THEN "TaskError" ELSE "None"
WaitOutcome(fs) == "None"

\* load_tester.py line 70: block until every future is done
Wait ==
  /\ pc = "wait"
  /\ \A k \in 1..Len(futures) : Done(futures[k])
  /\ exc' = WaitOutcome(futures)
  /\ pc' = "exit"
  /\ UNCHANGED <<args, reachable, tenants, i, futures, queue, workers, lock,
                 results, recorded, aggregate, metricsCalls, failedCalls, dispatched, exported, outcome>>

\* load_tester.py line 58, leaving the with block: shutdown(wait=True) returns
\* once every worker thread has ended, and a worker thread ends only when it
\* is idle and the queue holds no work item
JoinedMut(q, ws) == TRUE
Joined(q, ws) == q = <<>> /\ \A w \in 1..Len(ws) : ws[w].pc = "idle"

\* load_tester.py line 58, leaving the with block: shutdown(wait=True) joins
\* the worker threads, which end once the queue is empty; an exception in
\* flight then leaves run_load_test.
ExitExecutor ==
  /\ pc = "exit"
  /\ Joined(queue, workers)
  /\ IF exc # "None"
     THEN pc' = "done" /\ outcome' = "error"
     ELSE pc' = "metrics" /\ outcome' = outcome
  /\ UNCHANGED <<args, reachable, tenants, i, futures, queue, workers, lock,
                 results, recorded, exc, aggregate, metricsCalls, failedCalls, dispatched, exported>>

\* load_tester.py lines 72-74 and cli.py line 63: the aggregate is returned,
\* unless _calculate_metrics raises
CalculateMetrics ==
  /\ pc = "metrics"
  /\ \E d \in Durations :
       LET m == _calculate_metrics(results, d)
       IN IF m = MetricsRaised
          THEN aggregate' = aggregate /\ outcome' = "error" /\ pc' = "done"
          ELSE aggregate' = m /\ outcome' = "aggregate" /\ pc' = "show"
  /\ metricsCalls' = metricsCalls + 1
  /\ UNCHANGED <<args, reachable, tenants, i, futures, queue, workers, lock,
                 results, recorded, exc, failedCalls, dispatched, exported>>

\* cli.py lines 65-85: show the results, then write the JSON file when --json
\* was given
ShowAndExport ==
  /\ pc = "show"
  /\ \E json \in BOOLEAN :
       exported' = IF json THEN [written |-> TRUE, data |-> ExportData(aggregate)]
                   ELSE NoExport
  /\ pc' = "done"
  /\ UNCHANGED <<args, reachable, tenants, i, futures, queue, workers, lock,
                 results, recorded, exc, aggregate, metricsCalls, failedCalls,
                 dispatched, outcome>>

\* ---------------------------------------------------------------- workers
\* load_tester.py line 42: threading.Lock can be acquired when nobody holds it
LockFreeMut(l) == TRUE
LockFree(l) == l = 0

\* load_tester.py line 58: the pool's work queue hands out the work items in
\* the order they were put (first in, first out)
work_queue_getMut(q) == [item |-> q[Len(q)], rest |-> SubSeq(q, 1, Len(q) - 1)]
work_queue_get(q) == [item |-> Head(q), rest |-> Tail(q)]

\* A worker thread of the pool takes the oldest queued work item and starts
\* running _single_request for it (load_tester.py lines 58, 66).
Take(w) ==
  /\ workers[w].pc = "idle"
  /\ queue # <<>>
  /\ LET got == work_queue_get(queue)
     IN /\ workers' = [workers EXCEPT ![w] = [pc |-> "request", unit |-> got.item.unit,
                                              tenant |-> got.item.tenant,
                                              res |-> QueryMetrics("")]]
        /\ futures' = [futures EXCEPT ![got.item.unit + 1] = "RUNNING"]
        /\ queue' = got.rest
  /\ UNCHANGED <<args, reachable, pc, tenants, i, lock, results, recorded, exc,
                 aggregate, metricsCalls, failedCalls, dispatched, exported, outcome>>

\* load_tester.py lines 40-41, the part of _single_request that touches no
\* shared state. ArrowFlightClient(self.gateway_uri) runs outside any try
\* block: when flight.FlightClient raises (flight_client.py line 19) the
\* exception leaves _single_request and is stored in the future. Otherwise
\* res = client.query_dataset(tenant_id, dataset, rows).
Request(w) ==
  /\ workers[w].pc = "request"
  /\ \/ /\ workers' = [workers EXCEPT ![w] = IdleWorker]
        /\ futures' = [futures EXCEPT ![workers[w].unit + 1] = "RAISED"]
        /\ UNCHANGED failedCalls
     \/ \E o \in BackendOutcomes(reachable) :
          LET r == query_dataset(workers[w].tenant, o)
          IN /\ failedCalls' = IF o.fail # "none"
                               THEN failedCalls \cup {workers[w].unit}
                               ELSE failedCalls
             /\ IF r.raised
                THEN /\ workers' = [workers EXCEPT ![w] = IdleWorker]
                     /\ futures' = [futures EXCEPT ![workers[w].unit + 1] = "RAISED"]
                ELSE /\ workers' = [workers EXCEPT ![w].pc = "lock",
                                                   ![w].res = r.metrics]
                     /\ UNCHANGED futures
  /\ UNCHANGED <<args, reachable, pc, tenants, i, queue, lock, results, recorded,
                 exc, aggregate, metricsCalls, dispatched, exported, outcome>>

\* load_tester.py line 42: with self._lock (enter)
AcquireLock(w) ==
  /\ workers[w].pc = "lock"
  /\ LockFree(lock)
  /\ lock' = w
  /\ workers' = [workers EXCEPT ![w].pc = "append"]
  /\ UNCHANGED <<args, reachable, pc, tenants, i, futures, queue, results,
                 recorded, exc, aggregate, metricsCalls, failedCalls, dispatched, exported, outcome>>

\* load_tester.py line 43: list.append puts the new element after the others
results_appendMut(collection, res) == <<res>> \o collection
results_append(collection, res) == Append(collection, res)

\* load_tester.py line 43: self.results.append(res)
AppendResult(w) ==
  /\ workers[w].pc = "append"
  /\ results' = results_append(results, workers[w].res)
  /\ recorded' = results_append(recorded, workers[w].unit)
  /\ workers' = [workers EXCEPT ![w].pc = "unlock"]
  /\ UNCHANGED <<args, reachable, pc, tenants, i, futures, queue, lock, exc,
                 aggregate, metricsCalls, failedCalls, dispatched, exported, outcome>>

\* load_tester.py lines 42-44: leave the with block (release) and return res;
\* the executor marks the future finished and the thread is free again.
ReleaseReturn(w) ==
  /\ workers[w].pc = "unlock"
  /\ lock' = 0
  /\ futures' = [futures EXCEPT ![workers[w].unit + 1] = "FINISHED"]
  /\ workers' = [workers EXCEPT ![w] = IdleWorker]
  /\ UNCHANGED <<args, reachable, pc, tenants, i, queue, results, recorded, exc,
                 aggregate, metricsCalls, failedCalls, dispatched, exported, outcome>>

Worker(w) ==
  \/ Take(w)
  \/ Request(w)
  \/ AcquireLock(w)
  \/ AppendResult(w)
  \/ ReleaseReturn(w)

Main ==
  \/ CmdQueryHealth
  \/ CmdQueryRun
  \/ CmdLoadTest
  \/ RunStart
  \/ CreateExecutor
  \/ Submit
  \/ Wait
  \/ ExitExecutor
  \/ CalculateMetrics
  \/ ShowAndExport

Next == Main \/ \E w \in 1..Len(workers) : Worker(w)

Spec == Init /\ [][Next]_vars

\* The scheduling the program relies on: the main thread and every worker
\* thread keep running, and a released lock is eventually handed to a waiter.
Fairness ==
  /\ WF_vars(Main)
  /\ \A w \in 1..(MaxConcurrency + 1) :
       /\ WF_vars(w <= Len(workers) /\ (Take(w) \/ Request(w)
                     \/ AppendResult(w) \/ ReleaseReturn(w)))
       /\ SF_vars(w <= Len(workers) /\ AcquireLock(w))

FairSpec == Spec /\ Fairness

\* ---------------------------------------------------------------- tester
\* LoadTester used as a library: an instance that has already completed a run
\* for the tenant "tenant_sergio" (its results and the aggregate it returned
\* are still there) is asked for another run, and the caller may interrupt
\* the run (KeyboardInterrupt in the main thread) while it is inside the pool
\* block. pc ends at "show" when run_load_test returned and at "done" when an
\* exception left it.
EarlierSample(fail) ==
  query_dataset("tenant_sergio",
                [fail |-> fail, meta |-> 1, transfer |-> 2,
                 table |-> CHOOSE tb \in Tables : TRUE]).metrics

\* what the earlier run left in self.results: nothing, one successful sample,
\* or a failed and a successful sample
EarlierResults ==
  { <<>>, <<EarlierSample("none")>>,
    <<EarlierSample("read_all"), EarlierSample("none")>> }

TesterInit ==
  /\ args \in [command : {"load-test"}, requests : 0..MaxRequests,
               concurrency : 1..MaxConcurrency, tenants_list : {<<>>},
               tenants_count : {MaxTenants}, tenant : {"tenant_default"}]
  /\ reachable \in BOOLEAN
  /\ pc = "run_load_test"
  /\ tenants = GenerateTenants(args.tenants_list, args.tenants_count)
  /\ i = 0
  /\ futures = <<>>
  /\ queue = <<>>
  /\ workers = <<>>
  /\ lock = 0
  /\ results \in EarlierResults
  /\ recorded = <<>>
  /\ exc = "None"
  /\ aggregate = _calculate_metrics(results, 1)
  /\ metricsCalls = 1
  /\ failedCalls = {}
  /\ dispatched = <<>>
  /\ exported = NoExport
  /\ outcome = "aggregate"

\* load_tester.py lines 58-70: KeyboardInterrupt is raised in the main thread
\* while it is in the dispatch loop or in concurrent.futures.wait; the
\* exception leaves the with block through the executor's __exit__
Interrupt ==
  /\ pc \in {"submit", "wait"}
  /\ exc' = "KeyboardInterrupt"
  /\ pc' = "exit"
  /\ UNCHANGED <<args, reachable, tenants, i, futures, queue, workers, lock,
                 results, recorded, aggregate, metricsCalls, failedCalls,
                 dispatched, exported, outcome>>

TesterNext ==
  \/ RunStart
  \/ CreateExecutor
  \/ Submit
  \/ Interrupt
  \/ Wait
  \/ ExitExecutor
  \/ CalculateMetrics
  \/ \E w \in 1..Len(workers) : Worker(w)

TesterSpec == TesterInit /\ [][TesterNext]_vars

\* ---------------------------------------------------------------- load_test.py
\* The load-test script of the router: concurrent_users simulated users, each
\* a task of the pool that sends requests_per_user requests with the request
\* pattern A, B or C. In this specification args is the LoadTestConfig,
\* futures and workers hold one entry per user (workers[u + 1] is the call
\* worker_thread(u, ...), its results being the list it returns), recorded
\* lists the users whose future the main thread has collected, results is
\* all_responses and aggregate the LoadTestResult.
Patterns == {"A", "B", "C", "all"}

\* load_test.py line 148: the rotation index of request idx (the loop's i) of
\* user user_id
PatternIndexMut(user_id, idx) == idx % 3
PatternIndex(user_id, idx) == (user_id + idx) % 3

\* load_test.py lines 140-155: which execute_request_pattern_* is called
StrategyFor(pattern, user_id, idx) ==
  IF pattern = "A" THEN "A"
  ELSE IF pattern = "B" THEN "B"
  ELSE IF pattern = "C" THEN "C"
  ELSE IF PatternIndex(user_id, idx) = 0 THEN "A"
  ELSE IF PatternIndex(user_id, idx) = 1 THEN "B"
  ELSE "C"

\* api_client: what one request does: the client returns a response with
\* status "completed", or the call raises
RequestOutcomes == {"completed", "raise"}

\* api_client DatasetResponse as returned by the client; strategy, user_id and
\* index are history fields naming the call that produced the response
ClientResponse(o, strategy, user_id, index) ==
  [status |-> o, error_message |-> NoError,
   ttfb |-> IF o = "completed" THEN 2 ELSE 0,
   data_size_bytes |-> IF o = "completed" THEN 16 ELSE 0,
   strategy |-> strategy, user_id |-> user_id, index |-> index]

\* load_test.py lines 160-164: the response built by the except branch
ErrorResponse(strategy, user_id, index) ==
  [status |-> "error", error_message |-> "exception",
   ttfb |-> 0, data_size_bytes |-> 0,
   strategy |-> strategy, user_id |-> user_id, index |-> index]

\* load_test.py lines 158-164: except Exception appends the error response
OnRequestExceptionMut(user_results, response) == user_results
OnRequestException(user_results, response) == Append(user_results, response)

\* load_test.py line 213: all_responses.extend(responses)
Extend(all_responses, responses) == all_responses \o responses

\* load_test.py lines 230-255: the counts and statistics of the responses
ProcessResponses(all_responses) ==
  LET completed == SelectSeq(all_responses, LAMBDA r : r.status = "completed")
      others == SelectSeq(all_responses, LAMBDA r : r.status # "completed")
  IN [total_requests      |-> Len(all_responses),
      successful_requests |-> Len(completed),
      failed_requests     |-> Len(others),
      total_bytes         |-> SumSeq(Field(completed, "data_size_bytes")),
      ttfb                |-> TtfbPercentiles(Field(completed, "ttfb"))]

UserTask(user_id) == [pc |-> "queued", unit |-> user_id, i |-> 0, results |-> <<>>]

UserInit ==
  /\ args \in [command : {"load_test.py"}, users : 0..MaxUsers,
               requests_per_user : 0..MaxPerUser, pattern : Patterns]
  /\ reachable \in BOOLEAN
  /\ pc = "main"
  /\ tenants = <<>>
  /\ i = 0
  /\ futures = <<>>
  /\ queue = <<>>
  /\ workers = <<>>
  /\ lock = 0
  /\ results = <<>>
  /\ recorded = <<>>
  /\ exc = "None"
  /\ aggregate = NoAggregate
  /\ metricsCalls = 0
  /\ failedCalls = {}
  /\ dispatched = <<>>
  /\ exported = NoExport
  /\ outcome = "running"

\* load_test.py lines 344-351: main leaves when the router does not answer
UserMain ==
  /\ pc = "main"
  /\ IF check_health(reachable)
     THEN pc' = "executor" /\ outcome' = outcome
     ELSE pc' = "done" /\ outcome' = "could_not_connect"
  /\ UNCHANGED <<args, reachable, tenants, i, futures, queue, workers, lock,
                 results, recorded, exc, aggregate, metricsCalls, failedCalls,
                 dispatched, exported>>

\* load_test.py line 200: ThreadPoolExecutor(max_workers=concurrent_users);
\* the ValueError for max_workers <= 0 is reported by main (lines 364-368)
UserCreateExecutor ==
  /\ pc = "executor"
  /\ IF max_workers(args.users) <= 0
     THEN pc' = "done" /\ exc' = "ValueError" /\ outcome' = "fatal"
     ELSE pc' = "submit" /\ exc' = exc /\ outcome' = outcome
  /\ UNCHANGED <<args, reachable, tenants, i, futures, queue, workers, lock,
                 results, recorded, aggregate, metricsCalls, failedCalls,
                 dispatched, exported>>

\* load_test.py lines 203-206: one pass of the loop over the users
UserSubmit ==
  /\ pc = "submit"
  /\ IF i < args.users
     THEN /\ futures' = Append(futures, "PENDING")
          /\ workers' = Append(workers, UserTask(i))
          /\ i' = i + 1
          /\ pc' = pc
     ELSE /\ pc' = "collect"
          /\ UNCHANGED <<i, futures, workers>>
  /\ UNCHANGED <<args, reachable, tenants, queue, lock, results, recorded, exc,
                 aggregate, metricsCalls, failedCalls, dispatched, exported,
                 outcome>>

\* load_test.py lines 210-222: as_completed hands over a finished future that
\* was not handed over before; its responses are merged. After the last one
\* the with block is left.
UserCollect ==
  /\ pc = "collect"
  /\ IF Len(recorded) = Len(futures)
     THEN /\ pc' = "process"
          /\ UNCHANGED <<results, recorded>>
     ELSE /\ \E u \in 1..Len(futures) :
               /\ Done(futures[u])
               /\ \A k \in 1..Len(recorded) : recorded[k] # u - 1
               /\ results' = Extend(results, workers[u].results)
               /\ recorded' = Append(recorded, u - 1)
          /\ pc' = pc
  /\ UNCHANGED <<args, reachable, tenants, i, futures, queue, workers, lock,
                 exc, aggregate, metricsCalls, failedCalls, dispatched,
                 exported, outcome>>

\* load_test.py lines 224-255: the result is computed and returned to main
UserProcess ==
  /\ pc = "process"
  /\ aggregate' = ProcessResponses(results)
  /\ pc' = "print"
  /\ UNCHANGED <<args, reachable, tenants, i, futures, queue, workers, lock,
                 results, recorded, exc, metricsCalls, failedCalls, dispatched,
                 exported, outcome>>

\* load_test.py lines 356 and 258-297: print_results prints the total, then
\* divides by it for the percentages; the ZeroDivisionError of an empty run
\* is reported by main (lines 365-369)
UserPrint ==
  /\ pc = "print"
  /\ IF aggregate.total_requests = 0
     THEN exc' = "ZeroDivisionError" /\ outcome' = "fatal"
     ELSE exc' = exc /\ outcome' = "reported"
  /\ pc' = "done"
  /\ UNCHANGED <<args, reachable, tenants, i, futures, queue, workers, lock,
                 results, recorded, aggregate, metricsCalls, failedCalls,
                 dispatched, exported>>

\* load_test.py lines 128-138: a pool thread starts worker_thread(user_id)
UserStart(u) ==
  /\ workers[u].pc = "queued"
  /\ workers' = [workers EXCEPT ![u].pc = "running"]
  /\ futures' = [futures EXCEPT ![u] = "RUNNING"]
  /\ UNCHANGED <<args, reachable, pc, tenants, i, queue, lock, results,
                 recorded, exc, aggregate, metricsCalls, failedCalls,
                 dispatched, exported, outcome>>

\* load_test.py lines 140-164: one pass of the loop over the requests
UserRequest(u) ==
  /\ workers[u].pc = "running"
  /\ workers[u].i < args.requests_per_user
  /\ \E o \in RequestOutcomes :
       LET user_id == workers[u].unit
           index == workers[u].i
           strategy == StrategyFor(args.pattern, user_id, index)
       IN workers' = [workers EXCEPT
            ![u].i = index + 1,
            ![u].results =
               IF o = "raise"
               THEN OnRequestException(workers[u].results,
                                       ErrorResponse(strategy, user_id, index))
               ELSE Append(workers[u].results,
                           ClientResponse(o, strategy, user_id, index))]
  /\ UNCHANGED <<args, reachable, pc, tenants, i, futures, queue, lock, results,
                 recorded, exc, aggregate, metricsCalls, failedCalls,
                 dispatched, exported, outcome>>

\* load_test.py line 166: return results
UserReturn(u) ==
  /\ workers[u].pc = "running"
  /\ workers[u].i >= args.requests_per_user
  /\ workers' = [workers EXCEPT ![u].pc = "returned"]
  /\ futures' = [futures EXCEPT ![u] = "FINISHED"]
  /\ UNCHANGED <<args, reachable, pc, tenants, i, queue, lock, results,
                 recorded, exc, aggregate, metricsCalls, failedCalls,
                 dispatched, exported, outcome>>

UserNext ==
  \/ UserMain
  \/ UserCreateExecutor
  \/ UserSubmit
  \/ UserCollect
  \/ UserProcess
  \/ UserPrint
  \/ \E u \in 1..Len(workers) : UserStart(u) \/ UserRequest(u) \/ UserReturn(u)

UserSpec == UserInit /\ [][UserNext]_vars

\* ---------------------------------------------------------------- aggregator
\* The Metrics Aggregator on its own: LoadTester.results holds any collection
\* of samples query_dataset can produce, in any order of arrival, and
\* _calculate_metrics is applied to it; the collection is then reordered or
\* has a failed sample added, removed or replaced, and is aggregated again.
\* Here pc is "collected", "finalized" or "failed" and outcome names the last
\* operation.
StatOutcomes ==
  { [fail |-> f, meta |-> m, transfer |-> t, table |-> tb] :
      f \in FailPhases \cup {"none"}, m \in {1, 2}, t \in {1, 3}, tb \in Tables }

StatSamples == { query_dataset("tenant_001", o).metrics : o \in StatOutcomes }

StatFailures == { r \in StatSamples : r.status # "Success" }

RECURSIVE SeqsUpTo(_, _)
SeqsUpTo(S, n) ==
  IF n = 0 THEN {<<>>}
  ELSE LET shorter == SeqsUpTo(S, n - 1)
       IN shorter \cup { Append(q, x) : q \in {r \in shorter : Len(r) = n - 1}, x \in S }

Orders(n) ==
  { p \in [1..n -> 1..n] : \A a, b \in 1..n : p[a] = p[b] => a = b }

Reordered(res, p) == [k \in 1..Len(res) |-> res[p[k]]]

InsertAt(res, k, x) == SubSeq(res, 1, k - 1) \o <<x>> \o SubSeq(res, k, Len(res))
RemoveAt(res, k) == SubSeq(res, 1, k - 1) \o SubSeq(res, k + 1, Len(res))

StatFrame ==
  UNCHANGED <<args, reachable, tenants, i, futures, queue, workers, lock,
              recorded, exc, metricsCalls, failedCalls, dispatched, exported>>

StatInit ==
  /\ args = [command |-> "load-test", requests |-> 0, concurrency |-> 1,
             tenants_list |-> <<>>, tenants_count |-> 1, tenant |-> "tenant_default"]
  /\ reachable = TRUE
  /\ pc = "collected"
  /\ tenants = <<"tenant_001">>
  /\ i = 0
  /\ futures = <<>>
  /\ queue = <<>>
  /\ workers = <<>>
  /\ lock = 0
  /\ results \in SeqsUpTo(StatSamples, MaxSamples)
  /\ recorded = <<>>
  /\ exc = "None"
  /\ aggregate = NoAggregate
  /\ metricsCalls = 0
  /\ failedCalls = {}
  /\ dispatched = <<>>
  /\ exported = NoExport
  /\ outcome = "collected"

\* aggregate the collection res after the operation op
Aggregated(res, d, op) ==
  LET m == _calculate_metrics(res, d)
  IN /\ results' = res
     /\ IF m = MetricsRaised
        THEN aggregate' = aggregate /\ pc' = "failed" /\ outcome' = "error"
        ELSE aggregate' = m /\ pc' = "finalized" /\ outcome' = op
     /\ StatFrame

\* load_tester.py line 74: finalize the collection as it arrived
StatFinalize ==
  /\ pc = "collected"
  /\ \E d \in Durations : Aggregated(results, d, "finalized")

\* the same samples appended in another order, aggregated with the same duration
StatReorder ==
  /\ pc = "finalized"
  /\ \E p \in Orders(Len(results)) :
       /\ Reordered(results, p) # results
       /\ Aggregated(Reordered(results, p), aggregate.duration_s, "reordered")

\* a failed sample is added to, removed from or replaced in the collection
StatEditFailure ==
  /\ pc = "finalized"
  /\ \/ /\ Len(results) < MaxSamples
        /\ \E k \in 1..(Len(results) + 1), x \in StatFailures :
             Aggregated(InsertAt(results, k, x), aggregate.duration_s, "failure_added")
     \/ \E k \in 1..Len(results) :
          /\ results[k] \in StatFailures
          /\ Aggregated(RemoveAt(results, k), aggregate.duration_s, "failure_removed")
     \/ \E k \in 1..Len(results), x \in StatFailures :
          /\ results[k] \in StatFailures
          /\ x # results[k]
          /\ Aggregated([results EXCEPT ![k] = x], aggregate.duration_s,
                        "failure_replaced")

StatNext == StatFinalize \/ StatReorder \/ StatEditFailure

StatSpec == StatInit /\ [][StatNext]_vars

\* ---------------------------------------------------------------- properties
LoadTest == args.command = "load-test"
Returned == pc = "done" /\ outcome = "aggregate"
Units(state) == {k \in 1..Len(futures) : futures[k] = state}
Busy == {w \in 1..Len(workers) : workers[w].pc # "idle"}
InCritical == {w \in 1..Len(workers) : workers[w].pc \in {"append", "unlock"}}
Occurrences(u) == Cardinality({k \in 1..Len(recorded) : recorded[k] = u})

\* C1: a run with non-empty tenants and positive concurrency returns an
\* aggregate with total = successful + failed and total = the number of
\* dispatched units (= total_requests), each unit having exactly one sample.
C1_OneSamplePerUnit ==
  (LoadTest /\ Returned /\ Len(tenants) > 0 /\ args.concurrency > 0) =>
    /\ aggregate.total_requests = aggregate.successful + aggregate.failed
    /\ Len(futures) = args.requests
    /\ aggregate.total_requests = args.requests
    /\ \A u \in 0..(args.requests - 1) : Occurrences(u) = 1

\* C2: the number of units taken by a worker and not yet returned never
\* exceeds the configured concurrency; every other unfinished unit is queued.
C2_ConcurrencyBound ==
  LoadTest =>
    /\ Cardinality(Units("RUNNING")) <= args.concurrency
    /\ Cardinality(Busy) = Cardinality(Units("RUNNING"))
    /\ Cardinality(Units("PENDING")) = Len(queue)
    /\ \A k \in 1..Len(queue) : futures[queue[k].unit + 1] = "PENDING"

C2_Witness ==
  /\ args.concurrency = 2
  /\ Cardinality(Units("RUNNING")) = 2
  /\ Len(queue) >= 1

\* C3: at most one worker is inside the append critical section, it is the
\* holder of the lock, and the collection holds exactly one sample for every
\* worker that has completed its append.
C3_SerializedAppends ==
  /\ Cardinality(InCritical) <= 1
  /\ \A w \in 1..Len(workers) : (w \in InCritical) <=> (lock = w)
  /\ Len(results) = Len(recorded)
  /\ Len(results) = Cardinality(Units("FINISHED"))
                    + Cardinality({w \in InCritical : workers[w].pc = "unlock"})
  /\ \A k \in Units("FINISHED") : Occurrences(k - 1) = 1
  /\ \A w \in 1..Len(workers) :
       workers[w].pc = "unlock" =>
         /\ Occurrences(workers[w].unit) = 1
         /\ results[Len(results)] = workers[w].res

C3_Witness ==
  /\ \E w \in 1..Len(workers) : workers[w].pc = "append"
  /\ \E w \in 1..Len(workers) : workers[w].pc = "lock"
  /\ Len(results) >= 1

\* C4: _calculate_metrics is called at most once, exactly once before an
\* aggregate is returned, and from the call on no unit is queued or executing
\* and the collection no longer changes.
C4_AggregateAfterJoin ==
  /\ metricsCalls <= 1
  /\ Returned => metricsCalls = 1
  /\ metricsCalls = 1 =>
       /\ \A k \in 1..Len(futures) : Done(futures[k])
       /\ queue = <<>>
       /\ Busy = {}
       /\ aggregate.results = results
  /\ pc = "metrics" => (queue = <<>> /\ Busy = {}
                        /\ \A k \in 1..Len(futures) : Done(futures[k]))

C4_Witness ==
  /\ metricsCalls = 1
  /\ Len(futures) = MaxRequests
  /\ Len(results) >= 2

\* C5: when a task raised, the run still ends with an aggregate, every other
\* unit has run to completion, and the aggregate holds exactly the samples of
\* the units that returned.
C5_CrashIsolated ==
  (pc = "done" /\ Units("RAISED") # {}) =>
    /\ outcome = "aggregate"
    /\ Len(futures) = args.requests
    /\ \A k \in 1..Len(futures) : Done(futures[k])
    /\ aggregate.total_requests = Cardinality(Units("FINISHED"))
    /\ aggregate.results = results
    /\ \A k \in Units("FINISHED") : Occurrences(k - 1) = 1
    /\ \A k \in Units("RAISED") : Occurrences(k - 1) = 0

C5_Witness ==
  /\ Returned
  /\ Cardinality(Units("RAISED")) = 1
  /\ Cardinality(Units("FINISHED")) = 2
  /\ futures[1] = "RAISED"

\* the sample recorded for unit u, if any, and the sample a worker holds for it
SamplesOf(u) == {results[k] : k \in {j \in 1..Len(recorded) : recorded[j] = u}}
HeldFor(u) == {workers[w].res : w \in {v \in 1..Len(workers) :
                  workers[v].unit = u /\ workers[v].pc \in {"lock", "append", "unlock"}}}

C7_NoRunWhenUnreachable ==
  (LoadTest /\ ~check_health(reachable)) =>
    /\ futures = <<>>
    /\ results = <<>>
    /\ outcome # "aggregate"

\* C8: an empty tenant list or a non-positive concurrency makes run_load_test
\* end with an error, whatever total_requests is: nothing is dispatched,
\* nothing is recorded and no aggregate is returned.
C8_ConfigurationErrorAborts ==
  (LoadTest /\ pc \notin {"cmd_load_test"}
     /\ (Len(tenants) = 0 \/ args.concurrency <= 0)) =>
    /\ futures = <<>>
    /\ results = <<>>
    /\ outcome # "aggregate"
    /\ pc = "done" => outcome = "error"

\* C9: a load test ends either with an aggregate covering every dispatched
\* unit or with an error raised before any unit was dispatched.
C9_FullAggregateOrUpfrontError ==
  (LoadTest /\ pc = "done") =>
    \/ /\ outcome = "aggregate"
       /\ Len(futures) = args.requests
       /\ aggregate.total_requests = Len(futures)
    \/ /\ outcome = "error"
       /\ futures = <<>>

\* C10: the unit dispatched i-th runs with tenants[i mod len(tenants)] and its
\* sample carries that tenant; over two tenants the even indices go to the
\* first and the odd indices to the second.
C10_RoundRobin ==
  /\ \A k \in 1..Len(queue) :
       queue[k].tenant = tenants[(queue[k].unit % Len(tenants)) + 1]
  /\ \A w \in Busy :
       workers[w].tenant = tenants[(workers[w].unit % Len(tenants)) + 1]
  /\ \A k \in 1..Len(recorded) :
       results[k].tenant_id = tenants[(recorded[k] % Len(tenants)) + 1]
  /\ \A idx \in 0..9 :
       TenantFor(idx, <<"t1", "t2">>) = IF idx \in {0, 2, 4, 6, 8} THEN "t1" ELSE "t2"

C10_Witness ==
  /\ Len(tenants) = 2
  /\ \E k \in 1..Len(recorded) :
       recorded[k] = 2 /\ results[k].tenant_id = "tenant_001"
  /\ \E k \in 1..Len(recorded) :
       recorded[k] = 1 /\ results[k].tenant_id = "tenant_002"

\* ---------------------------------------------------------------- aggregator properties
OnlySuccess(res) == SelectSeq(res, LAMBDA r : r.status = "Success")
SuccessLatencies == Field(OnlySuccess(results), "total_latency_ms")
CountOf(res, x) == Cardinality({k \in 1..Len(res) : res[k] = x})
SameSamples(a, b) ==
  /\ Len(a) = Len(b)
  /\ \A k \in 1..Len(a) : CountOf(a, a[k]) = CountOf(b, a[k])
Statistics(m) ==
  <<m.successful, m.failed, m.total_rows, m.total_bytes, m.avg_latency_ms,
    m.p95_latency_ms>>
Derived(m) == <<m.avg_latency_ms, m.p95_latency_ms, m.total_rows, m.total_bytes>>

\* C11: aggregating the same samples with the same duration in another order
\* of arrival gives the same successful, failed, total_rows, total_bytes,
\* avg_latency_ms and p95_latency_ms.
C11_OrderIndependent ==
  [][(pc = "finalized" /\ pc' = "finalized" /\ SameSamples(results, results')
      /\ aggregate'.duration_s = aggregate.duration_s)
       => Statistics(aggregate') = Statistics(aggregate)]_vars

C11_Witness ==
  /\ outcome = "reordered"
  /\ Len(results) = MaxSamples
  /\ Len(SuccessLatencies) = MaxSamples
  /\ SuccessLatencies[1] > SuccessLatencies[2]
  /\ SuccessLatencies[2] < SuccessLatencies[3]
  /\ aggregate.p95_latency_ms = SuccessLatencies[1]

\* value v is the element at 0-based index idx of the ascending order of lats
AtSortedIndex(lats, idx, v) ==
  /\ \E k \in 1..Len(lats) : lats[k] = v
  /\ Cardinality({k \in 1..Len(lats) : lats[k] < v}) <= idx
  /\ Cardinality({k \in 1..Len(lats) : lats[k] <= v}) >= idx + 1

IsFloor(idx, percent, n) == 100 * idx <= percent * n /\ percent * n < 100 * (idx + 1)

ExampleSamples ==
  [k \in 1..5 |-> [QueryMetrics("t1") EXCEPT
                     !.status = "Success",
                     !.total_latency_ms = <<30, 10, 50, 20, 40>>[k]]]

\* C12: p95 is the element at index floor(0.95 n) of the ascending successful
\* latencies and 0 without any; the p90, p95 and p99 indices are the floors of
\* 0.90 n, 0.95 n and 0.99 n and lie in 0..n-1 for every n >= 1; for the
\* latencies 10..50 the p95 index is 4 and the value 50.
C12_NearestRank ==
  /\ \A n \in 1..MaxRank :
       /\ P95Index(n) \in 0..(n - 1) /\ IsFloor(P95Index(n), 95, n)
       /\ P90Index(n) \in 0..(n - 1) /\ IsFloor(P90Index(n), 90, n)
       /\ P99Index(n) \in 0..(n - 1) /\ IsFloor(P99Index(n), 99, n)
  /\ P95Index(5) = 4
  /\ _calculate_metrics(ExampleSamples, 1).p95_latency_ms = 50
  /\ pc = "finalized" =>
       LET lats == SuccessLatencies
           n == Len(lats)
           ttfb == TtfbPercentiles(lats)
       IN IF n = 0
          THEN aggregate.p95_latency_ms = 0
          ELSE /\ AtSortedIndex(lats, (95 * n) \div 100, aggregate.p95_latency_ms)
               /\ AtSortedIndex(lats, (90 * n) \div 100, ttfb.p90)
               /\ AtSortedIndex(lats, (95 * n) \div 100, ttfb.p95)
               /\ AtSortedIndex(lats, (99 * n) \div 100, ttfb.p99)

C12_Witness ==
  /\ pc = "finalized"
  /\ Len(SuccessLatencies) = MaxSamples
  /\ SuccessLatencies[1] > SuccessLatencies[MaxSamples]
  /\ aggregate.p95_latency_ms = SuccessLatencies[1]

\* C13: a change of the collection that leaves its successful samples as they
\* are (a failed sample added, removed or replaced by another) changes none of
\* avg_latency_ms, p95_latency_ms, total_rows, total_bytes and successful;
\* total_requests and failed follow the collection.
C13_OnlySuccessCounts ==
  [][(pc = "finalized" /\ pc' = "finalized"
      /\ OnlySuccess(results') = OnlySuccess(results))
       => /\ Derived(aggregate') = Derived(aggregate)
          /\ aggregate'.successful = aggregate.successful
          /\ aggregate'.total_requests = Len(results')
          /\ aggregate'.failed = Len(results') - Len(OnlySuccess(results'))]_vars

C13_Witness ==
  /\ outcome = "failure_replaced"
  /\ Len(OnlySuccess(results)) >= 1
  /\ \E k \in 1..Len(results) :
       results[k].status = "Error" /\ results[k].total_latency_ms > 0
  /\ aggregate.failed >= 1

\* C14: _calculate_metrics returns a result for every collection, the empty
\* one included; without a successful sample the result has successful = 0,
\* failed = total_requests and zero latencies, rows and bytes.
C14_AggregationTotal ==
  /\ pc # "failed"
  /\ pc = "finalized" =>
       /\ aggregate # MetricsRaised
       /\ aggregate.total_requests = Len(results)
       /\ aggregate.avg_latency_ms.den >= 1
       /\ OnlySuccess(results) = <<>> =>
            /\ aggregate.successful = 0
            /\ aggregate.failed = Len(results)
            /\ aggregate.avg_latency_ms.num = 0
            /\ aggregate.p95_latency_ms = 0
            /\ aggregate.total_rows = 0
            /\ aggregate.total_bytes = 0

C14_Witness ==
  /\ pc = "finalized"
  /\ Len(results) = MaxSamples
  /\ OnlySuccess(results) = <<>>
  /\ aggregate.failed = MaxSamples


\* ---------------------------------------------------------------- run order
IsPrefix(a, b) == Len(a) <= Len(b) /\ SubSeq(b, 1, Len(a)) = a
InCall(u) == \E w \in 1..Len(workers) : workers[w].pc = "request" /\ workers[w].unit = u

\* C15: the collection is in completion order: a sample, once appended, keeps
\* its position and every later sample comes after it; a unit whose backend
\* call has not returned yet has no sample in the collection, so the sample of
\* a unit appended before another unit's call returned precedes that unit's
\* sample, whatever the dispatch order; the aggregate returns that collection.
C15_CompletionOrder ==
  [][LoadTest =>
       /\ IsPrefix(recorded, recorded')
       /\ IsPrefix(results, results')
       /\ \A u \in 0..(Len(futures) - 1) :
            InCall(u) => \A k \in 1..Len(recorded') : recorded'[k] # u
       /\ outcome' = "aggregate" => aggregate'.results = results']_vars

C15_Witness ==
  /\ LoadTest /\ Returned
  /\ recorded = <<1, 0>>
  /\ aggregate.results = results
  /\ Len(results) = 2

Terminal(r) ==
  /\ r.status \in {"Success", "Error"}
  /\ (r.error # NoError) <=> (r.status = "Error")

\* C16: every sample in the collection of a run, and in the collection the
\* aggregate returns, has status "Success" or "Error", never "Pending", and
\* has an error text exactly when its status is "Error".
C16_TerminalStatus ==
  LoadTest =>
    /\ \A k \in 1..Len(results) : Terminal(results[k])
    /\ outcome = "aggregate" =>
         \A k \in 1..Len(aggregate.results) : Terminal(aggregate.results[k])

C16_Witness ==
  /\ LoadTest /\ Returned
  /\ \E j, k \in 1..Len(results) :
       /\ results[j].status = "Success" /\ results[j].error = NoError
       /\ results[k].status = "Error" /\ results[k].error # NoError

\* C17: with concurrency 1 at most one unit is in flight, a unit starts only
\* when every unit dispatched before it is done and no unit dispatched after
\* it has started, and the samples are recorded in dispatch order.
C17_SequentialWhenOne ==
  (LoadTest /\ args.concurrency = 1) =>
    /\ Cardinality(Busy) <= 1
    /\ Cardinality(Units("RUNNING")) <= 1
    /\ \A k \in 1..Len(futures) :
         futures[k] # "PENDING" =>
           /\ \A j \in 1..(k - 1) : Done(futures[j])
           /\ \A j \in (k + 1)..Len(futures) : Done(futures[k]) \/ futures[j] = "PENDING"
    /\ \A a, b \in 1..Len(recorded) : a < b => recorded[a] < recorded[b]

C17_Witness ==
  /\ LoadTest /\ Returned
  /\ args.concurrency = 1
  /\ recorded = <<0, 1, 2>>

ExportFields ==
  {"duration", "total_requests", "successful", "failed", "avg_latency_ms",
   "p95_latency_ms", "total_rows", "total_bytes"}

\* C18: the data written by the JSON export is a flat record with at least the
\* fields duration, total_requests, successful, failed, avg_latency_ms,
\* p95_latency_ms, total_rows and total_bytes, each equal to the field of the
\* aggregate.
C18_FlatExport ==
  exported.written =>
    /\ ExportFields \subseteq DOMAIN exported.data
    /\ exported.data.duration = aggregate.duration_s
    /\ exported.data.total_requests = aggregate.total_requests
    /\ exported.data.successful = aggregate.successful
    /\ exported.data.failed = aggregate.failed
    /\ exported.data.avg_latency_ms = aggregate.avg_latency_ms
    /\ exported.data.p95_latency_ms = aggregate.p95_latency_ms
    /\ exported.data.total_rows = aggregate.total_rows
    /\ exported.data.total_bytes = aggregate.total_bytes

\* the number of the first n units that round-robin gives to partition j
RoundRobinCount(j, n, partitions) ==
  Cardinality({k \in 0..(n - 1) : TenantFor(k, partitions) = partitions[j]})

\* C19: round-robin dispatch gives partition j of m the count of the batching
\* policy, n // m plus one for the first n % m partitions: for the tenant list
\* run_load_test is called with and every number n of requests, and after
\* every pass of the dispatch loop of the run; a single partition receives
\* every unit.
C19_RoundRobinCountsAsBatching ==
  (LoadTest /\ Len(tenants) > 0) =>
    /\ pc = "run_load_test" =>
         \A n \in 0..MaxRank :
           /\ \A j \in 1..Len(tenants) :
                RoundRobinCount(j, n, tenants) = BatchCount(j, n, Len(tenants))
           /\ Len(tenants) = 1 => RoundRobinCount(1, n, tenants) = n
    /\ \A j \in 1..Len(tenants) :
         CountOf(dispatched, tenants[j]) = BatchCount(j, Len(dispatched), Len(tenants))
    /\ Len(tenants) = 1 => CountOf(dispatched, tenants[1]) = Len(dispatched)
    /\ pc \in {"wait", "metrics", "show"} => Len(dispatched) = args.requests

C19_Witness ==
  /\ LoadTest /\ Returned
  /\ Len(tenants) = 2
  /\ Len(dispatched) = 3
  /\ CountOf(dispatched, tenants[1]) = 2
  /\ CountOf(dispatched, tenants[2]) = 1

\* C20: while units remain to be submitted the dispatch loop can submit the
\* next one at once, whatever the workers are doing and however many units
\* are queued; no unit has to complete first.
C20_SubmitNeverBlocks ==
  (LoadTest /\ pc = "submit" /\ i < args.requests /\ Len(tenants) > 0) =>
    ENABLED (Submit /\ i' = i + 1 /\ Len(futures') = Len(futures) + 1)

C20_Witness ==
  /\ LoadTest /\ pc = "submit" /\ i < args.requests
  /\ args.concurrency < args.requests
  /\ Cardinality(Busy) = args.concurrency
  /\ queue # <<>>
  /\ \A k \in 1..Len(futures) : ~Done(futures[k])
  /\ ENABLED (Submit /\ i' = i + 1)

\* ---------------------------------------------------------------- tester runs
OfThisRun(res) ==
  /\ Len(res) = Len(recorded)
  /\ \A k \in 1..Len(res) : res[k].tenant_id = TenantFor(recorded[k], tenants)

\* C21: when an interrupt or exception raised inside the pool block has left
\* run_load_test, every unit submitted before it has been executed and is
\* done: none is still queued or running, and no unit was submitted after it.
C21_DrainedOnAbort ==
  (pc = "done" /\ exc # "None") =>
    /\ queue = <<>>
    /\ Busy = {}
    /\ Len(futures) = i
    /\ \A k \in 1..Len(futures) : Done(futures[k])
    /\ Len(dispatched) = Len(futures)

C21_Witness ==
  /\ pc = "done" /\ exc = "KeyboardInterrupt"
  /\ i = 2 /\ i < args.requests
  /\ args.concurrency = 1
  /\ recorded = <<0, 1>>
  /\ \A k \in 1..Len(futures) : Done(futures[k])

\* C23: a run on an instance that has completed an earlier run starts from an
\* empty collection: once the run has started the collection holds exactly
\* the samples of this run's units, and the aggregate it returns counts those
\* and none of the earlier run.
C23_RunsIndependent ==
  /\ pc # "run_load_test" => OfThisRun(results)
  /\ pc = "show" =>
       /\ metricsCalls = 2
       /\ OfThisRun(aggregate.results)
       /\ aggregate.total_requests = Len(recorded)
       /\ aggregate.total_requests = Cardinality(Units("FINISHED"))
       /\ aggregate.successful + aggregate.failed = Len(recorded)

C23_Witness ==
  /\ pc = "metrics" /\ metricsCalls = 1
  /\ aggregate.total_requests = 2
  /\ aggregate.results[1].tenant_id = "tenant_sergio"
  /\ Len(results) = 1 /\ args.requests = 1
  /\ results[1].tenant_id = "tenant_001"

\* ---------------------------------------------------------------- load_test.py runs
Reported == pc = "done" /\ outcome = "reported"
ResponsesOf(u) == SelectSeq(results, LAMBDA r : r.user_id = u)
Rotation == <<"A", "B", "C">>

C24_PatternRotation ==
  \A u \in 1..Len(workers) : \A k \in 1..Len(workers[u].results) :
    LET r == workers[u].results[k]
    IN /\ r.user_id = u - 1 /\ r.index = k - 1
       /\ args.pattern \in {"A", "B", "C"} => r.strategy = args.pattern
       /\ args.pattern \notin {"A", "B", "C"} =>
            r.strategy = Rotation[((r.user_id + r.index) % 3) + 1]

C24_Witness ==
  /\ Reported
  /\ args.pattern = "all"
  /\ Len(workers) = 2
  /\ Field(workers[1].results, "strategy") = <<"A", "B">>
  /\ Field(workers[2].results, "strategy") = <<"B", "C">>

====
